---- MODULE Spec2Model ----
(***************************************************************************)
(* Model of the Ultraloq Wifi integration: the cloud API client            *)
(* (custom_components/ultraloq_wifi/api.py) and the data update            *)
(* coordinator (custom_components/ultraloq_wifi/coordinator.py).           *)
(*                                                                         *)
(* Every HTTP call of the client is one request followed by one response   *)
(* chosen by the environment.  A response is a record whose kind is        *)
(*   "ok"           HTTP 200 with a JSON body (application code in .code)  *)
(*   "http_error"   HTTP status other than 200                             *)
(*   "client_error" the transport raised aiohttp.ClientError               *)
(*   "bad_json"     HTTP 200 whose body response.json() cannot decode      *)
(*   "timeout"      the transport raised asyncio.TimeoutError, which is    *)
(*                  not an aiohttp.ClientError                             *)
(* The outcome of a call is a record [ret, exc, msg]: ret is "return" or   *)
(* "raise", exc the class of the raised exception, msg the message as a    *)
(* tuple of strings.                                                       *)
(***************************************************************************)
EXTENDS Integers, Sequences, FiniteSets, TLC

\* ------------------------------------------------------------------ values

\* Python's None, for string-valued fields.
None == "None"

\* A key that is absent from a JSON object, for integer-valued fields.
Missing == -1

\* Largest raw lock-state code the environment sends.
MaxRawCode == 3

\* Largest number of device groups / devices per group in a device list.
MaxGroups == 2
MaxDevices == 2

Tokens == {"T1", "T2"}
BaseUrls == {"https://X"}
UUIDs == {"u1", "u2"}
AppCodes == {200, 202, 401, 500}
FailKinds == {"http_error", "client_error", "bad_json", "timeout"}
RawCodes == {Missing} \cup (0..MaxRawCode)
Flags == {Missing, 0, 1}

\* ---------------------------------------------------------------- outcomes

Return == [ret |-> "return", exc |-> "", msg |-> <<>>]

Raise(exc, msg) == [ret |-> "raise", exc |-> exc, msg |-> msg]

NotAuthenticated == Raise("UltraloqAuthError", <<"Not authenticated - no API token">>)

NetworkError == Raise("UltraloqApiError", <<"Network error">>)

\* An exception the client does not catch: it leaves the call as it is.
RawError(kind) ==
    IF kind = "timeout" THEN Raise("TimeoutError", <<"timeout">>)
    ELSE Raise("JSONDecodeError", <<"bad json">>)

\* isinstance(e, UltraloqApiError): UltraloqAuthError is a subclass.
IsApiError(out) ==
    out.ret = "raise" /\ out.exc \in {"UltraloqApiError", "UltraloqAuthError"}

Range(q) == {q[i] : i \in 1..Len(q)}

\* Python truthiness of an optional string: None and "" are falsy.
Falsy(x) == x \in {None, ""}

\* dict.get(key, default) on an integer-valued key.
DictGet(v, default) == IF v = Missing THEN default ELSE v

\* --------------------------------------------------------------- responses

Fail(k) == [kind |-> k, code |-> 0]

TokenResponses ==
    {[kind |-> "ok", code |-> 200, token |-> t, utec |-> u] :
        t \in Tokens \cup {None, ""}, u \in BaseUrls \cup {None}}
    \cup {[kind |-> "ok", code |-> c, token |-> None, utec |-> None] : c \in AppCodes \ {200}}
    \cup {[kind |-> k, code |-> 0, token |-> None, utec |-> None] : k \in FailKinds}

\* A decoded login body carries its "data" as an object ("dict"; an absent
\* key reads as {}) or as null (None).
LoginResponses ==
    {[kind |-> "ok", code |-> c, data |-> "dict"] : c \in AppCodes}
    \cup {[kind |-> "ok", code |-> 200, data |-> None]}
    \cup {Fail(k) : k \in FailKinds}

PlainResponses ==
    {[kind |-> "ok", code |-> c] : c \in AppCodes} \cup {Fail(k) : k \in FailKinds}

StatusResponses ==
    {[kind |-> "ok", code |-> 200, is_locked |-> r] : r \in RawCodes}
    \cup {[kind |-> "ok", code |-> c, is_locked |-> Missing] : c \in AppCodes \ {200}}
    \cup {[kind |-> k, code |-> 0, is_locked |-> Missing] : k \in FailKinds}

OnlineResponses ==
    {[kind |-> "ok", code |-> 200, ble |-> b, remote |-> r] : b \in Flags, r \in Flags}
    \cup {[kind |-> "ok", code |-> c, ble |-> Missing, remote |-> Missing] : c \in AppCodes \ {200}}
    \cup {[kind |-> k, code |-> 0, ble |-> Missing, remote |-> Missing] : k \in FailKinds}

\* ------------------------------------------------------------ device lists

\* A device of the device-list endpoint: uuid and model are None when the key
\* is absent, uid is Missing when the device has no user data or no uid in it.
Dev(uuid, model, uid) == [uuid |-> uuid, model |-> model, uid |-> uid]

DevA == Dev("u1", "U-Bolt", 7)
DevB == Dev("u2", "U-Bolt", Missing)
DevC == Dev("u2", "U-Bolt-Pro", 0)
DevD == Dev(None, None, Missing)

DeviceUniverse == {DevA, DevB, DevC, DevD}

SeqsUpTo(S, n) == UNION {[1..k -> S] : k \in 0..n}

\* A device group: has_devices is FALSE when the "devices" key is absent.
Group(devs) == [has_devices |-> TRUE, devices |-> devs]

NoDevicesGroup == [has_devices |-> FALSE, devices |-> <<>>]

DeviceGroups == {Group(d) : d \in SeqsUpTo(DeviceUniverse, MaxDevices)} \cup {NoDevicesGroup}

DeviceLists == SeqsUpTo(DeviceGroups, MaxGroups)

\* The device lists the environment answers with while the client runs.
SampleDeviceLists ==
    { <<>>,
      <<Group(<<DevA, DevC>>), Group(<<DevB>>)>>,
      <<NoDevicesGroup, Group(<<DevB, DevC>>)>>,
      <<Group(<<DevD>>), Group(<<DevC, DevA>>)>> }

DeviceResponses ==
    {[kind |-> "ok", code |-> 200, data |-> d] : d \in SampleDeviceLists}
    \cup {[kind |-> "ok", code |-> c, data |-> <<>>] : c \in AppCodes \ {200}}
    \cup {[kind |-> k, code |-> 0, data |-> <<>>] : k \in FailKinds}

\* ------------------------------------------------- client: pure operations

\* The guard every data and command method starts with.
Guarded(api_token, out) == IF Falsy(api_token) THEN NotAuthenticated ELSE out

\* The number of HTTP requests one guarded data request issues.
Requests(api_token) == IF Falsy(api_token) THEN 0 ELSE 1

\* The outcome of a data request whose response.json() is not inside an
\* inner try (get_addresses, get_devices, get_lock_status).
\* Mutant: every decoded body counts as success, whatever its code.
PlainOutcome_IgnoresCode(resp, what) ==
    IF resp.kind = "client_error" THEN NetworkError
    ELSE IF resp.kind \in {"timeout", "bad_json"} THEN RawError(resp.kind)
    ELSE IF resp.kind = "http_error"
         THEN Raise("UltraloqApiError", <<what, "request failed with status">>)
    ELSE Return

PlainOutcome(resp, what) ==
    IF resp.kind = "client_error" THEN NetworkError
    ELSE IF resp.kind \in {"timeout", "bad_json"} THEN RawError(resp.kind)
    ELSE IF resp.kind = "http_error"
         THEN Raise("UltraloqApiError", <<what, "request failed with status">>)
    ELSE IF resp.code = 200 THEN Return
    ELSE Raise("UltraloqApiError", <<what, "request failed">>)

AddressesOutcome(resp) == PlainOutcome(resp, "Address")

DevicesOutcome(resp) == PlainOutcome(resp, "Device list")

StatusOutcome(resp) == PlainOutcome(resp, "Lock status")

get_addresses(api_token, resp) == Guarded(api_token, AddressesOutcome(resp))

get_devices(api_token, resp) == Guarded(api_token, DevicesOutcome(resp))

get_lock_status(api_token, resp) == Guarded(api_token, StatusOutcome(resp))

\* The snapshot get_lock_status builds from status_data.
\* Mutant: the two recognized codes swapped.
Snapshot_Swapped(raw) ==
    LET is_locked_value == DictGet(raw, 0)
    IN  [is_locked |-> is_locked_value = 1,
         is_unlocked |-> is_locked_value = 2,
         raw_lock_state |-> is_locked_value]

\* Mutant: everything that is not locked counts as unlocked.
Snapshot_NotLockedIsUnlocked(raw) ==
    LET is_locked_value == DictGet(raw, 0)
    IN  [is_locked |-> is_locked_value = 2,
         is_unlocked |-> is_locked_value # 2,
         raw_lock_state |-> is_locked_value]

Snapshot(raw) ==
    LET is_locked_value == DictGet(raw, 0)
    IN  [is_locked |-> is_locked_value = 2,
         is_unlocked |-> is_locked_value = 1,
         raw_lock_state |-> is_locked_value]

NoSnapshot == [is_locked |-> FALSE, is_unlocked |-> FALSE, raw_lock_state |-> Missing]

\* check_lock_online: the errors raised inside the inner try, the non-200
\* application code included, leave as "Invalid online check response format".
OnlineOutcome(resp) ==
    IF resp.kind = "client_error" THEN NetworkError
    ELSE IF resp.kind = "timeout" THEN RawError(resp.kind)
    ELSE IF resp.kind = "http_error"
         THEN Raise("UltraloqApiError", <<"Check lock online", "request failed with status">>)
    ELSE IF resp.kind = "ok" /\ resp.code = 200 THEN Return
    ELSE Raise("UltraloqApiError", <<"Invalid online check response format">>)

check_lock_online(api_token, resp) == Guarded(api_token, OnlineOutcome(resp))

\* Mutant: one reachable channel is enough to be online.
OnlineStatus_Or(resp) ==
    LET ble_online == DictGet(resp.ble, 0) = 1
        remote_online == DictGet(resp.remote, 0) = 1
    IN  [ble_online |-> ble_online,
         remote_online |-> remote_online,
         is_online |-> ble_online \/ remote_online]

OnlineStatus(resp) ==
    LET ble_online == DictGet(resp.ble, 0) = 1
        remote_online == DictGet(resp.remote, 0) = 1
    IN  [ble_online |-> ble_online,
         remote_online |-> remote_online,
         is_online |-> ble_online /\ remote_online]

NoOnlineStatus == [ble_online |-> FALSE, remote_online |-> FALSE, is_online |-> FALSE]

\* entry.get("devices", [])
DevicesOf(entry) == IF entry.has_devices THEN entry.devices ELSE <<>>

\* Mutant: a device without a model counts as a U-Bolt.
ModelOf_DefaultUBolt(device) == IF device.model = None THEN "U-Bolt" ELSE device.model

\* device.get("model", "")
ModelOf(device) == IF device.model = None THEN "" ELSE device.model

\* Mutant: a device without a uid is listed with uid 0.
LockInfo_UidDefaultZero(device) ==
    [uuid |-> device.uuid, model |-> device.model, user_uid |-> DictGet(device.uid, 0)]

LockInfo(device) ==
    [uuid |-> device.uuid, model |-> device.model, user_uid |-> device.uid]

\* The inner loop of get_locks over one group's devices, appending to locks.
RECURSIVE LocksOfDevices(_, _, _)
LocksOfDevices(devices, i, locks) ==
    IF i > Len(devices) THEN locks
    ELSE LocksOfDevices(devices, i + 1,
            IF ModelOf(devices[i]) = "U-Bolt"
            THEN Append(locks, LockInfo(devices[i]))
            ELSE locks)

\* The outer loop of get_locks over the device groups.
RECURSIVE LocksOfEntries(_, _, _)
LocksOfEntries(device_data, g, locks) ==
    IF g > Len(device_data) THEN locks
    ELSE LocksOfEntries(device_data, g + 1,
            LocksOfDevices(DevicesOf(device_data[g]), 1, locks))

get_locks(device_data) == LocksOfEntries(device_data, 1, <<>>)

\* All devices of a device list, in group order then device order.
RECURSIVE Flatten(_)
Flatten(device_data) ==
    IF device_data = <<>> THEN <<>>
    ELSE DevicesOf(Head(device_data)) \o Flatten(Tail(device_data))

\* Mutant: a matching device without a uid resolves to uid 0.
UidLookup_DefaultZero(device_data, uuid) ==
    LET all == Flatten(device_data)
        hits == {i \in 1..Len(all) : all[i].uuid = uuid}
    IN  IF hits = {} THEN [res |-> "not_found", uid |-> Missing]
        ELSE LET first == CHOOSE i \in hits : \A j \in hits : i <= j
             IN  [res |-> "found", uid |-> DictGet(all[first].uid, 0)]

\* get_device_user_uid after a successful get_devices: the first device whose
\* uuid matches decides; "found", "no_uid" or "not_found".
UidLookup(device_data, uuid) ==
    LET all == Flatten(device_data)
        hits == {i \in 1..Len(all) : all[i].uuid = uuid}
    IN  IF hits = {} THEN [res |-> "not_found", uid |-> Missing]
        ELSE LET first == CHOOSE i \in hits : \A j \in hits : i <= j
             IN  IF all[first].uid # Missing
                 THEN [res |-> "found", uid |-> all[first].uid]
                 ELSE [res |-> "no_uid", uid |-> Missing]

UidOutcome(resp, uuid) ==
    LET got == DevicesOutcome(resp)
    IN  IF got.ret = "raise" THEN got
        ELSE IF UidLookup(resp.data, uuid).res = "found" THEN Return
        ELSE IF UidLookup(resp.data, uuid).res = "no_uid"
             THEN Raise("UltraloqApiError", <<"No user UID found for device">>)
        ELSE Raise("UltraloqApiError", <<"Device not found">>)

get_device_user_uid(api_token, resp, uuid) == Guarded(api_token, UidOutcome(resp, uuid))

\* ------------------------------------------------------------------- state

VARIABLES
    api_token,      \* UltraloqApiClient._api_token
    api_base_url,   \* UltraloqApiClient._api_base_url
    access_token,   \* UltraloqApiClient._access_token
    auth,           \* the authenticate() call in flight, or the last one
    cmd,            \* the lock()/unlock() call in flight, or the last one
    last,           \* the last completed data call and what it returned
    lock_uuids,     \* UltraloqDataUpdateCoordinator._lock_uuids
    data,           \* DataUpdateCoordinator.data
    last_update_success,   \* DataUpdateCoordinator.last_update_success
    cycle,          \* the last refresh cycle: what was queried and what came back
    last_good,      \* per uuid, the snapshot of its last successful stored query
    device_data,    \* the device list the endpoint answers get_locks with
    locks,          \* what get_locks returned for device_data
    locks_done,     \* whether get_locks has returned
    auth2,          \* a second authenticate() call on the same client
    flow,           \* ConfigFlow: the step shown, its error, what it holds
    setup,          \* async_setup_entry: where it is and what it has stored
    entity          \* UltraloqLock: the async_lock/async_unlock call

clientVars == <<api_token, api_base_url, access_token, auth, cmd, last>>

coordVars == <<lock_uuids, data, last_update_success, cycle, last_good>>

locksVars == <<device_data, locks, locks_done>>

hostVars == <<auth2, flow, setup, entity>>

vars == <<clientVars, coordVars, locksVars, hostVars>>

Pending == [ret |-> "pending", exc |-> "", msg |-> <<>>]

\* UltraloqApiClient.is_authenticated
is_authenticated == access_token # None

\* The token response of a call that has received none yet.
NoTokenResponse == [kind |-> "none", code |-> 0, token |-> None, utec |-> None]

AuthIdle ==
    [pc |-> "idle", reqs |-> <<>>, was_authenticated |-> FALSE,
     before |-> [api_token |-> None, api_base_url |-> None, access_token |-> None],
     token_resp |-> NoTokenResponse, login_token |-> None,
     login_resp |-> Fail("none"), login_code |-> 0,
     out |-> Pending, val |-> None]

CmdIdle ==
    [pc |-> "idle", action |-> "", topic |-> "", uuid |-> None, authed |-> FALSE,
     reqs |-> <<>>, online_out |-> Pending, online |-> NoOnlineStatus,
     uid_out |-> Pending, devices |-> <<>>, uid |-> Missing,
     payload |-> [device_uuid |-> None, param |-> "", info |-> 0, topic |-> ""],
     post |-> Fail("none"), status_out |-> Pending, status |-> NoSnapshot,
     cancelled_at |-> "", out |-> Pending]

LastNone ==
    [op |-> "", uuid |-> None, authed |-> FALSE, nreq |-> 0, out |-> Pending,
     raw |-> Missing, status |-> NoSnapshot, online |-> NoOnlineStatus,
     locks |-> <<>>, uid |-> Missing, resp |-> Fail("none")]

\* The record of a completed call is kept until the next call is entered.
ForgetAuth == IF auth.pc = "done" THEN AuthIdle ELSE auth

ForgetCmd == IF cmd.pc = "done" THEN CmdIdle ELSE cmd

\* No authenticate() and no lock()/unlock() call is in flight.
Quiet == auth.pc \in {"idle", "done"} /\ cmd.pc \in {"idle", "done"}

\* UltraloqApiClient.__init__
ClientInit ==
    /\ api_token = None
    /\ api_base_url = None
    /\ access_token = None
    /\ auth = AuthIdle
    /\ cmd = CmdIdle
    /\ last = LastNone

\* ------------------------------------------------------------ authenticate

\* authenticate() is entered and _get_api_token posts the token request.
\* Calls of authenticate() are serialized.
AuthStart ==
    /\ auth.pc \in {"idle", "done"}
    /\ auth' = [AuthIdle EXCEPT !.pc = "await_token", !.reqs = <<"token">>,
                                !.was_authenticated = is_authenticated,
                                !.before = [api_token |-> api_token,
                                            api_base_url |-> api_base_url,
                                            access_token |-> access_token]]
    /\ cmd' = ForgetCmd
    /\ last' = LastNone
    /\ UNCHANGED <<api_token, api_base_url, access_token, coordVars, locksVars, hostVars>>

\* Mutant: a token without a base URL is accepted.
TokenOutcome_TokenOnly(resp) ==
    IF resp.kind = "ok" /\ resp.code = 200 /\ ~Falsy(resp.token) THEN Return
    ELSE Raise("UltraloqApiError", <<"Invalid token response">>)

\* Mutant: application code 202 counts as success.
TokenOutcome_Accepts202(resp) ==
    IF resp.kind = "ok" /\ resp.code = 202 THEN Return
    ELSE IF resp.kind = "ok" /\ resp.code = 200
            /\ ~Falsy(resp.token) /\ ~Falsy(resp.utec) THEN Return
    ELSE Raise("UltraloqApiError", <<"Token request failed">>)

\* The outcome of _get_api_token for a token response.
TokenOutcome(resp) ==
    IF resp.kind = "client_error" THEN NetworkError
    ELSE IF resp.kind = "timeout" THEN RawError(resp.kind)
    ELSE IF resp.kind = "http_error"
         THEN Raise("UltraloqApiError", <<"Token request failed with status">>)
    ELSE IF resp.kind = "bad_json"
         THEN Raise("UltraloqApiError", <<"Invalid token response format">>)
    ELSE IF resp.code # 200 THEN Raise("UltraloqApiError", <<"Token request failed">>)
    ELSE IF ~Falsy(resp.token) /\ ~Falsy(resp.utec) THEN Return
    ELSE Raise("UltraloqApiError", <<"Invalid token response">>)

\* The token response arrives: _get_api_token stores what an application
\* code 200 carries, and on success authenticate() posts the login request.
TokenResponse ==
    /\ auth.pc = "await_token"
    /\ \E resp \in TokenResponses :
        LET out == TokenOutcome(resp)
            stores == resp.kind = "ok" /\ resp.code = 200
        IN  /\ api_token' = IF stores THEN resp.token ELSE api_token
            /\ api_base_url' = IF stores THEN resp.utec ELSE api_base_url
            /\ auth' = IF out.ret = "return"
                       THEN [auth EXCEPT !.pc = "await_login",
                                         !.token_resp = resp,
                                         !.reqs = Append(@, "login"),
                                         !.login_token = resp.token]
                       ELSE [auth EXCEPT !.pc = "done", !.token_resp = resp,
                                         !.out = out]
    /\ UNCHANGED <<access_token, cmd, last, coordVars, locksVars, hostVars>>

\* Mutant: application code 401 is reported as a generic API error.
LoginOutcome_401Generic(resp) ==
    IF resp.kind = "ok" /\ resp.code = 401
    THEN Raise("UltraloqApiError", <<"Login failed">>)
    ELSE IF resp.kind = "ok" THEN Return
    ELSE Raise("UltraloqApiError", <<"Network error">>)

\* The outcome of authenticate() for a login response.  An application code
\* other than 200 and 401 is logged and the method falls off its end.
LoginOutcome(resp) ==
    IF resp.kind = "client_error" THEN NetworkError
    ELSE IF resp.kind = "timeout" THEN RawError(resp.kind)
    ELSE IF resp.kind = "http_error"
         THEN Raise("UltraloqAuthError", <<"Login request failed with status">>)
    ELSE IF resp.kind = "bad_json"
         THEN Raise("UltraloqAuthError", <<"Invalid login response format">>)
    ELSE IF resp.code = 401
         THEN Raise("UltraloqAuthError", <<"Invalid login response format">>)
    ELSE IF resp.code = 200 /\ resp.data = None
         THEN Raise("UltraloqAuthError", <<"Invalid login response format">>)
    ELSE Return

\* Mutant: any decoded login response logs the client in.
LoginStores_AnyCode(resp) == resp.kind = "ok"

\* The login responses for which "self._access_token = self._api_token" is
\* executed: application code 200, before the body's data is looked at.
LoginStores(resp) == resp.kind = "ok" /\ resp.code = 200

\* The debug line "self._access_token[:20]" after the assignment raises
\* TypeError when the token just copied is None; the handler of the inner
\* try turns it into UltraloqAuthError.
LoginLogged(resp, token, out) ==
    IF LoginStores(resp) /\ token = None
    THEN Raise("UltraloqAuthError", <<"Invalid login response format">>)
    ELSE out

LoginValue(resp) ==
    IF resp.kind = "ok" /\ resp.code = 200 THEN "True" ELSE None

LoginResponse ==
    /\ auth.pc = "await_login"
    /\ \E resp \in LoginResponses :
        LET out == LoginLogged(resp, api_token, LoginOutcome(resp))
        IN  /\ access_token' = IF LoginStores(resp) THEN api_token
                               ELSE access_token
            /\ auth' = [auth EXCEPT !.pc = "done", !.out = out,
                                    !.login_resp = resp,
                                    !.login_code = resp.code,
                                    !.val = IF out.ret = "return"
                                            THEN LoginValue(resp) ELSE None]
    /\ UNCHANGED <<api_token, api_base_url, cmd, last, coordVars, locksVars, hostVars>>

\* -------------------------------------------------------------- data calls

\* A data call reads the client's fields and writes none of them.  Its one
\* request is built before the await from the token read at entry, so the
\* call is one step: the request, the environment's response, the result.
Observe(op, uuid, nreq, out, resp) ==
    [LastNone EXCEPT !.op = op, !.uuid = uuid, !.authed = is_authenticated,
                     !.nreq = nreq, !.out = out,
                     !.resp = IF nreq = 0 THEN Fail("none") ELSE resp]

Call_get_addresses ==
    /\ \E resp \in PlainResponses :
        last' = Observe("get_addresses", None, Requests(api_token),
                        get_addresses(api_token, resp), resp)
    /\ auth' = ForgetAuth
    /\ cmd' = ForgetCmd
    /\ UNCHANGED <<api_token, api_base_url, access_token, coordVars, locksVars, hostVars>>

Call_get_devices ==
    /\ \E resp \in DeviceResponses :
        last' = Observe("get_devices", None, Requests(api_token),
                        get_devices(api_token, resp), resp)
    /\ auth' = ForgetAuth
    /\ cmd' = ForgetCmd
    /\ UNCHANGED <<api_token, api_base_url, access_token, coordVars, locksVars, hostVars>>

Call_get_locks ==
    /\ \E resp \in DeviceResponses :
        LET out == get_devices(api_token, resp)
        IN  last' = [Observe("get_locks", None, Requests(api_token), out, resp)
                        EXCEPT !.locks = IF out.ret = "return"
                                         THEN get_locks(resp.data) ELSE <<>>]
    /\ auth' = ForgetAuth
    /\ cmd' = ForgetCmd
    /\ UNCHANGED <<api_token, api_base_url, access_token, coordVars, locksVars, hostVars>>

Call_get_device_user_uid ==
    /\ \E resp \in DeviceResponses, uuid \in UUIDs :
        LET out == get_device_user_uid(api_token, resp, uuid)
        IN  last' = [Observe("get_device_user_uid", uuid, Requests(api_token), out, resp)
                        EXCEPT !.uid = IF out.ret = "return"
                                       THEN UidLookup(resp.data, uuid).uid
                                       ELSE Missing]
    /\ auth' = ForgetAuth
    /\ cmd' = ForgetCmd
    /\ UNCHANGED <<api_token, api_base_url, access_token, coordVars, locksVars, hostVars>>

\* Mutant: a failed status query drops the stored token.
Call_get_lock_status_DropsToken ==
    /\ \E resp \in StatusResponses, uuid \in UUIDs :
        LET out == get_lock_status(api_token, resp)
        IN  /\ last' = Observe("get_lock_status", uuid, Requests(api_token), out, resp)
            /\ api_token' = IF out.ret = "raise" THEN None ELSE api_token
    /\ auth' = ForgetAuth
    /\ cmd' = ForgetCmd
    /\ UNCHANGED <<api_base_url, access_token, coordVars, locksVars, hostVars>>

\* Mutant: the client refuses a status query while a command sleeps.
Call_get_lock_status_BlockedBySettle ==
    /\ cmd.pc # "settle"
    /\ \E resp \in StatusResponses, uuid \in UUIDs :
        last' = Observe("get_lock_status", uuid, Requests(api_token),
                        get_lock_status(api_token, resp), resp)
    /\ auth' = ForgetAuth
    /\ cmd' = ForgetCmd
    /\ UNCHANGED <<api_token, api_base_url, access_token, coordVars, locksVars, hostVars>>

Call_get_lock_status ==
    /\ \E resp \in StatusResponses, uuid \in UUIDs :
        LET out == get_lock_status(api_token, resp)
        IN  last' = [Observe("get_lock_status", uuid, Requests(api_token), out, resp)
                        EXCEPT !.raw = resp.is_locked,
                               !.status = IF out.ret = "return"
                                          THEN Snapshot(resp.is_locked)
                                          ELSE NoSnapshot]
    /\ auth' = ForgetAuth
    /\ cmd' = ForgetCmd
    /\ UNCHANGED <<api_token, api_base_url, access_token, coordVars, locksVars, hostVars>>

Call_check_lock_online ==
    /\ \E resp \in OnlineResponses, uuid \in UUIDs :
        LET out == check_lock_online(api_token, resp)
        IN  last' = [Observe("check_lock_online", uuid, Requests(api_token), out, resp)
                        EXCEPT !.online = IF out.ret = "return"
                                          THEN OnlineStatus(resp)
                                          ELSE NoOnlineStatus]
    /\ auth' = ForgetAuth
    /\ cmd' = ForgetCmd
    /\ UNCHANGED <<api_token, api_base_url, access_token, coordVars, locksVars, hostVars>>

\* ----------------------------------------------------------- lock / unlock

\* str(user_uid) for the one-digit uids of the model.
Str(n) == <<"0", "1", "2", "3", "4", "5", "6", "7", "8", "9">>[n + 1]

\* lock() and unlock(): the topic and the action label they pass on.
\* Mutant: the two topics swapped.
TopicOf_Swapped(action) == IF action = "LOCK" THEN "lock/unlock" ELSE "lock/lock"

TopicOf(action) == IF action = "LOCK" THEN "lock/lock" ELSE "lock/unlock"

InvalidFormat == Raise("UltraloqApiError", <<"Invalid response format">>)

\* The online check of _send_lock_command (the try block around
\* check_lock_online): Return stands for "go on to the command".
OnlineGate(out, online) ==
    IF out.ret = "return"
    THEN IF online.is_online THEN Return
         ELSE Raise("UltraloqApiError", <<"Lock is not online">>)
    ELSE IF IsApiError(out) THEN out
    ELSE Return

\* Mutant: the failure of get_device_user_uid is passed on as it is.
UidGate_Passthrough(out) == out

\* The user-UID resolution of _send_lock_command: any exception of
\* get_device_user_uid becomes one UltraloqApiError.
UidGate(out) ==
    IF out.ret = "return" THEN Return
    ELSE Raise("UltraloqApiError", <<"Could not get user UID for device">>)

\* The command POST up to the application code: Return stands for
\* "application code 200, go on to the settle delay".  The error raised for
\* another application code is raised inside the inner try and is replaced
\* by its "except Exception" handler.
\* Mutant: every decoded command response starts the verification.
CommandOutcome_AnyCode(resp) ==
    IF resp.kind = "client_error" THEN NetworkError
    ELSE IF resp.kind = "timeout" THEN RawError(resp.kind)
    ELSE IF resp.kind = "http_error"
         THEN Raise("UltraloqApiError", <<"request failed with status">>)
    ELSE IF resp.kind = "ok" THEN Return
    ELSE InvalidFormat

CommandOutcome(resp) ==
    IF resp.kind = "client_error" THEN NetworkError
    ELSE IF resp.kind = "timeout" THEN RawError(resp.kind)
    ELSE IF resp.kind = "http_error"
         THEN Raise("UltraloqApiError", <<"request failed with status">>)
    ELSE IF resp.kind = "ok" /\ resp.code = 200 THEN Return
    ELSE InvalidFormat

StateName(locked) == IF locked THEN "LOCKED" ELSE "UNLOCKED"

\* Mutant: the snapshot is fetched but not compared with the expected state.
VerifyInner_NoCompare(action, status_out, status) ==
    IF status_out.ret = "raise" /\ IsApiError(status_out) THEN status_out ELSE Return

\* The verification block (the try around get_lock_status): what it returns
\* or raises for the outcome and snapshot of the status query.
VerifyInner(action, status_out, status) ==
    LET expected_locked == (action = "LOCK")
        actual_locked == status.is_locked
    IN  IF status_out.ret = "return"
        THEN IF actual_locked = expected_locked THEN Return
             ELSE Raise("UltraloqApiError",
                        <<"command failed - expected", StateName(expected_locked),
                          "got", StateName(actual_locked)>>)
        ELSE IF IsApiError(status_out) THEN status_out
        ELSE Return

\* The "except Exception as json_err" handler that encloses the verification
\* block: every exception that leaves the block is replaced.
WrapOuter(out) == IF out.ret = "raise" THEN InvalidFormat ELSE out

VerifyOutcome(action, status_out, status) ==
    WrapOuter(VerifyInner(action, status_out, status))

Finish(c, out) == [c EXCEPT !.pc = "done", !.out = out]

\* lock()/unlock() is entered: the guard, then the online-check request.
CommandStart ==
    /\ cmd.pc \in {"idle", "done"}
    /\ \E action \in {"LOCK", "UNLOCK"}, uuid \in UUIDs :
        LET c == [CmdIdle EXCEPT !.action = action, !.topic = TopicOf(action),
                                 !.uuid = uuid, !.authed = is_authenticated]
        IN  cmd' = IF Falsy(api_token) THEN Finish(c, NotAuthenticated)
                   ELSE [c EXCEPT !.pc = "await_online", !.reqs = <<"online">>]
    /\ auth' = ForgetAuth
    /\ last' = LastNone
    /\ UNCHANGED <<api_token, api_base_url, access_token, coordVars, locksVars, hostVars>>

\* The online-check response arrives; when the check lets the command go on,
\* get_device_user_uid posts the device-list request behind its own guard.
OnlineResponse ==
    /\ cmd.pc = "await_online"
    /\ \E resp \in OnlineResponses :
        LET out == OnlineOutcome(resp)
            online == IF out.ret = "return" THEN OnlineStatus(resp) ELSE NoOnlineStatus
            gate == OnlineGate(out, online)
            c == [cmd EXCEPT !.online_out = out, !.online = online]
        IN  cmd' = IF gate.ret = "raise" THEN Finish(c, gate)
                   ELSE IF Falsy(api_token)
                        THEN Finish([c EXCEPT !.uid_out = NotAuthenticated],
                                    UidGate(NotAuthenticated))
                   ELSE [c EXCEPT !.pc = "await_devices", !.reqs = Append(@, "devices")]
    /\ UNCHANGED <<api_token, api_base_url, access_token, auth, last, coordVars, locksVars, hostVars>>

\* The device-list response arrives; with the uid resolved the command is
\* built and posted.
DevicesResponse ==
    /\ cmd.pc = "await_devices"
    /\ \E resp \in DeviceResponses :
        LET out == UidOutcome(resp, cmd.uuid)
            gate == UidGate(out)
            user_uid == UidLookup(resp.data, cmd.uuid).uid
            c == [cmd EXCEPT !.uid_out = out, !.devices = resp.data]
        IN  cmd' = IF gate.ret = "raise" THEN Finish(c, gate)
                   ELSE [c EXCEPT !.pc = "await_command",
                                  !.uid = user_uid,
                                  !.payload = [device_uuid |-> cmd.uuid,
                                               param |-> Str(user_uid),
                                               info |-> 8,
                                               topic |-> cmd.topic],
                                  !.reqs = Append(@, "command")]
    /\ UNCHANGED <<api_token, api_base_url, access_token, auth, last, coordVars, locksVars, hostVars>>

\* Mutant: a command POST that timed out is posted once more.
CommandResponse_RetryOnTimeout ==
    /\ cmd.pc = "await_command"
    /\ \E resp \in PlainResponses :
        LET out == CommandOutcome(resp)
            c == [cmd EXCEPT !.post = resp]
        IN  cmd' = IF resp.kind = "timeout" /\ Len(cmd.reqs) < 4
                   THEN [c EXCEPT !.reqs = Append(@, "command")]
                   ELSE IF out.ret = "raise" THEN Finish(c, out)
                   ELSE [c EXCEPT !.pc = "settle"]
    /\ UNCHANGED <<api_token, api_base_url, access_token, auth, last, coordVars, locksVars, hostVars>>

\* The command response arrives; application code 200 starts the settle delay.
CommandResponse ==
    /\ cmd.pc = "await_command"
    /\ \E resp \in PlainResponses :
        LET out == CommandOutcome(resp)
            c == [cmd EXCEPT !.post = resp]
        IN  cmd' = IF out.ret = "raise" THEN Finish(c, out)
                   ELSE [c EXCEPT !.pc = "settle"]
    /\ UNCHANGED <<api_token, api_base_url, access_token, auth, last, coordVars, locksVars, hostVars>>

\* asyncio.sleep(2) is over: get_lock_status posts the status request behind
\* its own guard.
SettleElapsed ==
    /\ cmd.pc = "settle"
    /\ cmd' = IF Falsy(api_token)
              THEN Finish([cmd EXCEPT !.status_out = NotAuthenticated],
                          VerifyOutcome(cmd.action, NotAuthenticated, NoSnapshot))
              ELSE [cmd EXCEPT !.pc = "await_status", !.reqs = Append(@, "status")]
    /\ UNCHANGED <<api_token, api_base_url, access_token, auth, last, coordVars, locksVars, hostVars>>

\* The status response arrives and the verification decides the result.
StatusResponse ==
    /\ cmd.pc = "await_status"
    /\ \E resp \in StatusResponses :
        LET out == StatusOutcome(resp)
            status == IF out.ret = "return" THEN Snapshot(resp.is_locked) ELSE NoSnapshot
        IN  cmd' = Finish([cmd EXCEPT !.status_out = out, !.status = status],
                          VerifyOutcome(cmd.action, out, status))
    /\ UNCHANGED <<api_token, api_base_url, access_token, auth, last, coordVars, locksVars, hostVars>>

\* asyncio.CancelledError: a BaseException, which no "except Exception" and
\* no "except aiohttp.ClientError" handler of the client catches.
Cancelled == Raise("CancelledError", <<>>)

\* Mutant: a cancellation in the settle delay is caught by the enclosing
\* "except Exception" handler and leaves as an API error.
CommandCancelled_Wrapped ==
    /\ cmd.pc \in {"await_online", "await_devices", "await_command", "settle",
                   "await_status"}
    /\ cmd' = Finish([cmd EXCEPT !.cancelled_at = cmd.pc],
                     IF cmd.pc = "settle" THEN InvalidFormat ELSE Cancelled)
    /\ UNCHANGED <<api_token, api_base_url, access_token, auth, last, coordVars, locksVars, hostVars>>

\* The task running lock()/unlock() is cancelled at the await it is suspended
\* in: CancelledError is raised there and leaves the call; nothing that
\* follows the await is executed.
CommandCancelled ==
    /\ cmd.pc \in {"await_online", "await_devices", "await_command", "settle",
                   "await_status"}
    /\ cmd' = Finish([cmd EXCEPT !.cancelled_at = cmd.pc], Cancelled)
    /\ UNCHANGED <<api_token, api_base_url, access_token, auth, last, coordVars, locksVars, hostVars>>

\* The client with its calls serialized: a call is entered only when no
\* authenticate() and no lock()/unlock() call is in flight.
ClientNext ==
    \/ Quiet /\ AuthStart
    \/ TokenResponse
    \/ LoginResponse
    \/ Quiet /\ Call_get_addresses
    \/ Quiet /\ Call_get_devices
    \/ Quiet /\ Call_get_locks
    \/ Quiet /\ Call_get_device_user_uid
    \/ Quiet /\ Call_get_lock_status
    \/ Quiet /\ Call_check_lock_online
    \/ Quiet /\ CommandStart
    \/ OnlineResponse
    \/ DevicesResponse
    \/ CommandResponse
    \/ SettleElapsed
    \/ StatusResponse
    \/ CommandCancelled

\* -------------------------------------------------------------- coordinator

\* The coordinator's cached mapping uuid -> snapshot, as a total function
\* with a presence flag; none is TRUE while DataUpdateCoordinator.data is None.
Absent == [present |-> FALSE, status |-> NoSnapshot]

Present(status) == [present |-> TRUE, status |-> status]

EmptyMap == [u \in UUIDs |-> Absent]

NoData == [none |-> TRUE, map |-> EmptyMap]

Mapping(m) == [none |-> FALSE, map |-> m]

NoResult == [res |-> "none", status |-> NoSnapshot]

CycleNone ==
    [ran |-> FALSE, via |-> "", cached |-> <<>>, discover |-> FALSE,
     discovered |-> FALSE, queried |-> <<>>,
     result |-> [u \in UUIDs |-> NoResult], failed |-> FALSE]

\* The device lists the device-list endpoint answers discovery with.
DevE == Dev(None, "U-Bolt", 7)

CoordDeviceResponses ==
    DeviceResponses
    \cup {[kind |-> "ok", code |-> 200, data |-> <<Group(<<DevE, DevA>>)>>]}

\* [lock["uuid"] for lock in locks if lock.get("uuid")]
RECURSIVE UuidsOf(_)
UuidsOf(found) ==
    IF found = <<>> THEN <<>>
    ELSE IF Falsy(Head(found).uuid) THEN UuidsOf(Tail(found))
    ELSE <<Head(found).uuid>> \o UuidsOf(Tail(found))

\* One status query of the gather: "ok" with its snapshot, or "fail" when
\* get_lock_status raised (return_exceptions=True keeps the exception).
QueryResult(resp) ==
    IF get_lock_status(api_token, resp).ret = "return"
    THEN [res |-> "ok", status |-> Snapshot(resp.is_locked)]
    ELSE [res |-> "fail", status |-> NoSnapshot]

QueryResults == {QueryResult(resp) : resp \in StatusResponses}

\* "uuid in self.data" raises TypeError while self.data is None.
MembershipRaises(uuids, results) ==
    data.none /\ \E i \in 1..Len(uuids) : results[uuids[i]].res = "fail"

\* The loop over zip(self._lock_uuids, results) building lock_data.
RECURSIVE BuildLockData(_, _, _, _)
BuildLockData(uuids, results, i, lock_data) ==
    IF i > Len(uuids) THEN lock_data
    ELSE LET uuid == uuids[i]
             next == IF results[uuid].res = "fail"
                     THEN IF data.map[uuid].present
                          THEN [lock_data EXCEPT ![uuid] = data.map[uuid]]
                          ELSE lock_data
                     ELSE [lock_data EXCEPT ![uuid] = Present(results[uuid].status)]
         IN  BuildLockData(uuids, results, i + 1, next)

\* One refresh: _async_update_data starting from the uuid list `cached`, and
\* the base class storing its result, or keeping data when it raises
\* UpdateFailed.  disc is the device-list response (used when the list is
\* empty), answers the result of the status query per uuid, via the entry
\* point that started the refresh.
Refresh(cached, disc, answers, via) ==
    LET discover == cached = <<>>
        disc_out == get_devices(api_token, disc)
        disc_failed == discover /\ disc_out.ret = "raise"
        uuids == IF ~discover THEN cached
                 ELSE IF disc_failed THEN cached
                 ELSE UuidsOf(get_locks(disc.data))
        results == [u \in UUIDs |->
                        IF ~disc_failed /\ u \in Range(uuids)
                        THEN answers[u] ELSE NoResult]
        failed == disc_failed \/ MembershipRaises(uuids, results)
        lock_data == BuildLockData(uuids, results, 1, EmptyMap)
    IN  /\ lock_uuids' = uuids
        /\ data' = IF failed THEN data ELSE Mapping(lock_data)
        /\ last_update_success' = ~failed
        /\ cycle' = [ran |-> TRUE, via |-> via, cached |-> cached,
                     discover |-> discover,
                     discovered |-> discover /\ ~disc_failed,
                     queried |-> IF disc_failed THEN <<>> ELSE uuids,
                     result |-> results, failed |-> failed]
        /\ last_good' = [u \in UUIDs |->
                            IF ~failed /\ results[u].res = "ok"
                            THEN Present(results[u].status) ELSE last_good[u]]

\* A scheduled or requested refresh.
RefreshCycle ==
    /\ \E disc \in CoordDeviceResponses, answers \in [UUIDs -> QueryResults] :
        Refresh(lock_uuids, disc, answers, "refresh")
    /\ UNCHANGED <<clientVars, locksVars, hostVars>>

\* Mutant: async_refresh_locks refreshes without clearing the uuid list.
RefreshLocks_KeepsList ==
    /\ \E disc \in CoordDeviceResponses, answers \in [UUIDs -> QueryResults] :
        Refresh(lock_uuids, disc, answers, "refresh_locks")
    /\ UNCHANGED <<clientVars, locksVars, hostVars>>

\* async_refresh_locks: the uuid list is cleared, then a refresh runs.
RefreshLocks ==
    /\ \E disc \in CoordDeviceResponses, answers \in [UUIDs -> QueryResults] :
        Refresh(<<>>, disc, answers, "refresh_locks")
    /\ UNCHANGED <<clientVars, locksVars, hostVars>>

CoordInit ==
    /\ lock_uuids = <<>>
    /\ data = NoData
    /\ last_update_success = TRUE
    /\ cycle = CycleNone
    /\ last_good = EmptyMap

\* --------------------------------------------------------------- the host

\* ConfigFlow.__init__: the credential form is the first step.
FlowIdle ==
    [step |-> "user", error |-> "", reason |-> "", has_client |-> FALSE,
     authenticating |-> FALSE, result |-> Pending, val |-> None,
     entry_created |-> FALSE]

\* async_setup_entry before it is called.
SetupIdle ==
    [pc |-> "idle", result |-> Pending, val |-> None, authenticated |-> FALSE,
     stored |-> FALSE, forwarded |-> FALSE, out |-> Pending]

\* UltraloqLock before async_lock/async_unlock is called.
EntityIdle ==
    [pc |-> "idle", op |-> "", uuid |-> None, cached |-> Absent,
     is_locked |-> None, sent |-> FALSE, refresh_requested |-> FALSE,
     data_before |-> EmptyMap, out |-> Pending]

HostInit ==
    /\ auth2 = AuthIdle
    /\ flow = FlowIdle
    /\ setup = SetupIdle
    /\ entity = EntityIdle

\* ------------------------------------ two authenticate() calls on one client

\* The first of the two calls is entered.
FirstAuthStart ==
    /\ auth.pc = "idle"
    /\ AuthStart

\* A second authenticate() call on the same client is entered while the
\* first may be suspended at either of its requests.
SecondAuthStart ==
    /\ auth2.pc = "idle"
    /\ auth2' = [AuthIdle EXCEPT !.pc = "await_token", !.reqs = <<"token">>,
                                 !.was_authenticated = is_authenticated,
                                 !.before = [api_token |-> api_token,
                                             api_base_url |-> api_base_url,
                                             access_token |-> access_token]]
    /\ UNCHANGED <<clientVars, coordVars, locksVars, flow, setup, entity>>

\* The second call's token response: the same _get_api_token, writing the
\* same fields of the client.
SecondTokenResponse ==
    /\ auth2.pc = "await_token"
    /\ \E resp \in TokenResponses :
        LET out == TokenOutcome(resp)
            stores == resp.kind = "ok" /\ resp.code = 200
        IN  /\ api_token' = IF stores THEN resp.token ELSE api_token
            /\ api_base_url' = IF stores THEN resp.utec ELSE api_base_url
            /\ auth2' = IF out.ret = "return"
                        THEN [auth2 EXCEPT !.pc = "await_login",
                                           !.token_resp = resp,
                                           !.reqs = Append(@, "login"),
                                           !.login_token = resp.token]
                        ELSE [auth2 EXCEPT !.pc = "done", !.token_resp = resp,
                                           !.out = out]
    /\ UNCHANGED <<access_token, auth, cmd, last, coordVars, locksVars,
                   flow, setup, entity>>

\* The second call's login response: on application code 200 the client's
\* API token, as it is now, becomes the access token.
SecondLoginResponse ==
    /\ auth2.pc = "await_login"
    /\ \E resp \in LoginResponses :
        LET out == LoginLogged(resp, api_token, LoginOutcome(resp))
        IN  /\ access_token' = IF LoginStores(resp) THEN api_token
                               ELSE access_token
            /\ auth2' = [auth2 EXCEPT !.pc = "done", !.out = out,
                                      !.login_resp = resp,
                                      !.login_code = resp.code,
                                      !.val = IF out.ret = "return"
                                              THEN LoginValue(resp) ELSE None]
    /\ UNCHANGED <<api_token, api_base_url, auth, cmd, last, coordVars, locksVars,
                   flow, setup, entity>>

\* ------------------------------------------------------ config flow and set-up

\* UltraloqApiClient(session): a new client, replacing the one the host held.
NewClient ==
    /\ api_token' = None
    /\ api_base_url' = None
    /\ access_token' = None

\* A new client's authenticate() is entered: the token request is posted.
NewClientAuthStart ==
    /\ NewClient
    /\ auth' = [AuthIdle EXCEPT !.pc = "await_token", !.reqs = <<"token">>]
    /\ cmd' = CmdIdle
    /\ last' = LastNone

\* Mutant: the handler for UltraloqApiError comes first and also takes the
\* authentication error, its subclass.
CredentialError_ApiFirst(out, val) ==
    IF out.ret = "raise"
    THEN IF IsApiError(out) THEN "cannot_connect" ELSE "unknown"
    ELSE IF val = "True" THEN "" ELSE "auth_failed"

\* The form error async_step_user sets for an outcome of authenticate():
\* the except clauses in their order, and the else branch of the if.
CredentialError(out, val) ==
    IF out.ret = "raise"
    THEN IF out.exc = "UltraloqAuthError" THEN "invalid_auth"
         ELSE IF IsApiError(out) THEN "cannot_connect"
         ELSE "unknown"
    ELSE IF val = "True" THEN "" ELSE "auth_failed"

\* async_step_user(user_input): a new client is created and authenticate()
\* is awaited.
FlowSubmitCredentials ==
    /\ flow.step = "user" /\ ~flow.authenticating
    /\ NewClientAuthStart
    /\ flow' = [flow EXCEPT !.authenticating = TRUE, !.error = "",
                            !.result = Pending, !.val = None]
    /\ UNCHANGED <<coordVars, locksVars, auth2, setup, entity>>

\* authenticate() has returned or raised inside async_step_user.  On True
\* the unique id is set: when an entry with it exists, AbortFlow is raised
\* inside the try and taken by "except Exception"; otherwise the client is
\* kept and async_step_address is entered, which asks for the addresses.
FlowCredentialResult ==
    /\ flow.authenticating /\ auth.pc = "done"
    /\ \E already_configured \in BOOLEAN :
        LET error == CredentialError(auth.out, auth.val)
            f == [flow EXCEPT !.authenticating = FALSE, !.result = auth.out,
                              !.val = auth.val]
        IN  flow' = IF error # "" THEN [f EXCEPT !.error = error]
                    ELSE IF already_configured THEN [f EXCEPT !.error = "unknown"]
                    ELSE [f EXCEPT !.has_client = TRUE, !.step = "address_loading"]
    /\ UNCHANGED <<clientVars, coordVars, locksVars, auth2, setup, entity>>

\* async_step_address(None), still inside async_step_user's try: the outcome
\* of get_addresses decides; an exception that is not UltraloqApiError leaves
\* async_step_address and is taken by async_step_user's "except Exception".
FlowAddressLoaded ==
    /\ flow.step = "address_loading"
    /\ \E resp \in PlainResponses, empty \in BOOLEAN :
        LET out == get_addresses(api_token, resp)
        IN  /\ last' = Observe("get_addresses", None, Requests(api_token), out, resp)
            /\ flow' = IF out.ret = "return"
                       THEN IF empty
                            THEN [flow EXCEPT !.step = "aborted", !.reason = "no_addresses"]
                            ELSE [flow EXCEPT !.step = "address"]
                       ELSE IF IsApiError(out)
                            THEN [flow EXCEPT !.step = "aborted",
                                              !.reason = "cannot_get_addresses"]
                       ELSE [flow EXCEPT !.step = "user", !.error = "unknown"]
    /\ auth' = ForgetAuth
    /\ UNCHANGED <<api_token, api_base_url, access_token, cmd, coordVars, locksVars,
                   auth2, setup, entity>>

\* async_step_address(user_input): the entry is created.
FlowSelectAddress ==
    /\ flow.step = "address"
    /\ flow' = [flow EXCEPT !.step = "created", !.entry_created = TRUE]
    /\ UNCHANGED <<clientVars, coordVars, locksVars, auth2, setup, entity>>

\* async_setup_entry: a new client is created from the entry's credentials
\* and authenticate() is awaited.  A failed set-up can be tried again.
SetupStart ==
    /\ flow.entry_created /\ setup.pc \in {"idle", "failed"}
    /\ NewClientAuthStart
    /\ setup' = [SetupIdle EXCEPT !.pc = "authenticating"]
    /\ UNCHANGED <<coordVars, locksVars, auth2, flow, entity>>

\* async_setup_entry goes on past "await api_client.authenticate(...)" when
\* the call returned; its value is not looked at.
SetupProceeds(out, val) == out.ret = "return"

\* authenticate() has returned or raised inside async_setup_entry: an
\* exception leaves the function; otherwise the coordinator is created and
\* stored in hass.data, and the platforms are forwarded.
SetupFinish ==
    /\ setup.pc = "authenticating" /\ auth.pc = "done"
    /\ setup' = IF SetupProceeds(auth.out, auth.val)
                THEN [setup EXCEPT !.pc = "loaded", !.result = auth.out,
                                   !.val = auth.val,
                                   !.authenticated = is_authenticated,
                                   !.stored = TRUE, !.forwarded = TRUE,
                                   !.out = Return]
                ELSE [setup EXCEPT !.pc = "failed", !.result = auth.out,
                                   !.val = auth.val,
                                   !.authenticated = is_authenticated,
                                   !.out = auth.out]
    /\ UNCHANGED <<clientVars, coordVars, locksVars, auth2, flow, entity>>

\* ------------------------------------------------------------ the lock entity

\* UltraloqEntity.device_data: self.coordinator.data.get(uuid, {}), Absent
\* standing for the empty dict.
DeviceData(uuid) == data.map[uuid]

\* UltraloqLock.is_locked: None for an empty device_data, else its
\* "is_locked" value.
is_locked(uuid) ==
    IF ~DeviceData(uuid).present THEN None
    ELSE IF DeviceData(uuid).status.is_locked THEN "True" ELSE "False"

\* The early return of async_lock ("current_state is True") and of
\* async_unlock ("current_state is False").
AlreadyInState(op, uuid) ==
    \/ op = "lock" /\ is_locked(uuid) = "True"
    \/ op = "unlock" /\ is_locked(uuid) = "False"

\* async_lock / async_unlock is entered: either the early return, or the
\* client's lock()/unlock() is called and reaches its online check.
EntityCommand ==
    /\ entity.pc = "idle" /\ Quiet
    /\ \E op \in {"lock", "unlock"} :
        LET uuid == entity.uuid
            action == IF op = "lock" THEN "LOCK" ELSE "UNLOCK"
            e == [entity EXCEPT !.op = op, !.cached = DeviceData(uuid),
                                !.is_locked = is_locked(uuid),
                                !.data_before = data.map]
            c == [CmdIdle EXCEPT !.action = action, !.topic = TopicOf(action),
                                 !.uuid = uuid, !.authed = is_authenticated]
        IN  IF AlreadyInState(op, uuid)
            THEN /\ entity' = [e EXCEPT !.pc = "done", !.out = Return]
                 /\ cmd' = cmd
            ELSE /\ entity' = [e EXCEPT !.pc = "awaiting", !.sent = TRUE]
                 /\ cmd' = IF Falsy(api_token) THEN Finish(c, NotAuthenticated)
                            ELSE [c EXCEPT !.pc = "await_online",
                                           !.reqs = <<"online">>]
    /\ UNCHANGED <<api_token, api_base_url, access_token, auth, last, coordVars,
                   locksVars, auth2, flow, setup>>

\* Mutant: the refresh is requested whatever the command did.
RefreshAfter_Always(out) == TRUE

\* async_request_refresh() is the statement after the awaited command inside
\* the try: it is reached only when lock()/unlock() returned.
RefreshAfter(out) == out = Return

\* lock()/unlock() has returned or raised inside the entity method: on a
\* return the refresh is requested; an exception is logged and raised again,
\* a cancellation passes "except Exception" untouched.
EntityCommandDone ==
    /\ entity.pc = "awaiting" /\ cmd.pc = "done"
    /\ entity' = IF RefreshAfter(cmd.out)
                 THEN [entity EXCEPT !.pc = "refresh", !.refresh_requested = TRUE]
                 ELSE [entity EXCEPT !.pc = "done", !.out = cmd.out]
    /\ UNCHANGED <<clientVars, coordVars, locksVars, auth2, flow, setup>>

\* The requested refresh runs and the entity method returns; a failed
\* refresh is recorded by the coordinator and not raised to the entity.
EntityRefresh ==
    /\ entity.pc = "refresh"
    /\ \E disc \in CoordDeviceResponses, answers \in [UUIDs -> QueryResults] :
        Refresh(lock_uuids, disc, answers, "refresh")
    /\ entity' = [entity EXCEPT !.pc = "done", !.out = Return]
    /\ UNCHANGED <<clientVars, locksVars, auth2, flow, setup>>

\* ------------------------------------------------------ get_locks in isolation

LocksInit ==
    /\ device_data = <<>>
    /\ locks = <<>>
    /\ locks_done = FALSE

\* get_locks on an authenticated client, for the device list in device_data.
Run_get_locks ==
    /\ ~locks_done
    /\ locks' = get_locks(device_data)
    /\ locks_done' = TRUE
    /\ UNCHANGED <<device_data, clientVars, coordVars, hostVars>>

\* ---------------------------------------------------------- specifications

\* The client alone, on a fresh client.
Init == ClientInit /\ CoordInit /\ LocksInit /\ HostInit

Next == ClientNext

Spec == Init /\ [][Next]_vars

\* The coordinator on a client whose authenticate() has returned True.
InitCoord ==
    /\ api_token = "T1"
    /\ api_base_url = "https://X"
    /\ access_token = "T1"
    /\ auth = AuthIdle
    /\ cmd = CmdIdle
    /\ last = LastNone
    /\ CoordInit
    /\ LocksInit
    /\ HostInit

NextCoord ==
    \/ RefreshCycle
    \/ RefreshLocks

SpecCoord == InitCoord /\ [][NextCoord]_vars

\* get_locks over every device list within the bounds.
InitLocks ==
    /\ ClientInit
    /\ CoordInit
    /\ device_data \in DeviceLists
    /\ locks = <<>>
    /\ locks_done = FALSE
    /\ HostInit

NextLocks == Run_get_locks

SpecLocks == InitLocks /\ [][NextLocks]_vars

\* A command on an authenticated client while other callers use the same
\* client: during the settle delay (asyncio.sleep) the event loop runs a
\* status query of another caller and one refresh cycle of the coordinator.
\* The config flow followed by the set-up of the entry it created.
NextHost ==
    \/ FlowSubmitCredentials
    \/ TokenResponse
    \/ LoginResponse
    \/ FlowCredentialResult
    \/ FlowAddressLoaded
    \/ FlowSelectAddress
    \/ SetupStart
    \/ SetupFinish

SpecHost == Init /\ [][NextHost]_vars

\* Two authenticate() calls on one client, interleaved at their requests.
NextRace ==
    \/ FirstAuthStart
    \/ TokenResponse
    \/ LoginResponse
    \/ SecondAuthStart
    \/ SecondTokenResponse
    \/ SecondLoginResponse

SpecRace == Init /\ [][NextRace]_vars

\* The entity of lock "u1" of a loaded entry: the client is authenticated and
\* the coordinator holds that lock's uuid and, from its earlier refreshes,
\* either a snapshot of it or none.
InitEntity ==
    /\ api_token = "T1"
    /\ api_base_url = "https://X"
    /\ access_token = "T1"
    /\ auth = AuthIdle
    /\ cmd = CmdIdle
    /\ last = LastNone
    /\ lock_uuids = <<"u1">>
    /\ \E cached \in {Absent} \cup {Present(Snapshot(raw)) : raw \in RawCodes} :
        /\ data = Mapping([EmptyMap EXCEPT !["u1"] = cached])
        /\ last_good = [EmptyMap EXCEPT !["u1"] = cached]
    /\ last_update_success = TRUE
    /\ cycle = CycleNone
    /\ LocksInit
    /\ auth2 = AuthIdle
    /\ flow = FlowIdle
    /\ setup = SetupIdle
    /\ entity = [EntityIdle EXCEPT !.uuid = "u1"]

NextEntity ==
    \/ EntityCommand
    \/ OnlineResponse
    \/ DevicesResponse
    \/ CommandResponse
    \/ SettleElapsed
    \/ StatusResponse
    \/ CommandCancelled
    \/ EntityCommandDone
    \/ EntityRefresh

SpecEntity == InitEntity /\ [][NextEntity]_vars

NextSettle ==
    \/ Quiet /\ CommandStart
    \/ OnlineResponse
    \/ DevicesResponse
    \/ CommandResponse
    \/ SettleElapsed
    \/ StatusResponse
    \/ cmd.pc = "settle" /\ Call_get_lock_status
    \/ cmd.pc = "settle" /\ ~cycle.ran /\ RefreshCycle

SpecSettle == InitCoord /\ [][NextSettle]_vars

\* ------------------------------------------------------------------ claims

CmdDone == cmd.pc = "done"

PostAccepted == cmd.post.kind = "ok" /\ cmd.post.code = 200

ExpectedLocked == cmd.action = "LOCK"

\* C1: lock()/unlock() returns True only if the command POST returned HTTP
\* 200 with application code 200 and, after that, either the re-queried status
\* has is_locked equal to the expected value or the re-query itself failed; it
\* never returns True when the re-queried status contradicts the action.
C1_TrueOnlyIfConfirmed ==
    (CmdDone /\ cmd.out.ret = "return") =>
        /\ PostAccepted
        /\ cmd.reqs = <<"online", "devices", "command", "status">>
        /\ \/ cmd.status_out.ret = "raise"
           \/ cmd.status_out.ret = "return" /\ cmd.status.is_locked = ExpectedLocked

C1_Witness ==
    /\ CmdDone /\ cmd.authed /\ cmd.out.ret = "return" /\ cmd.action = "LOCK"
    /\ cmd.status_out.ret = "return" /\ cmd.status.raw_lock_state = 2

\* C2: while no authenticate() call has returned success, every data and
\* command method raises UltraloqAuthError and issues zero HTTP requests.
C2_UnauthenticatedNoRequests ==
    /\ (last.op # "" /\ ~last.authed) =>
            last.out.exc = "UltraloqAuthError" /\ last.nreq = 0
    /\ (cmd.pc # "idle" /\ ~cmd.authed) =>
            CmdDone /\ cmd.out.exc = "UltraloqAuthError" /\ cmd.reqs = <<>>

\* C3: when the command POST returned application code 200 and the status
\* query succeeds but reports the opposite state, the error that reaches the
\* caller is the state-verification error carrying the expected and the actual
\* state string.
C3_MismatchErrorCarriesStates ==
    (CmdDone /\ cmd.authed /\ PostAccepted /\ cmd.status_out.ret = "return"
        /\ cmd.status.is_locked # ExpectedLocked) =>
        /\ cmd.out.ret = "raise"
        /\ cmd.out.msg = <<"command failed - expected", StateName(ExpectedLocked),
                           "got", StateName(cmd.status.is_locked)>>

\* C4: when the command POST returned application code 200 and the status
\* query itself fails, for any reason, lock()/unlock() still returns True.
C4_StatusFailureStillSuccess ==
    (CmdDone /\ cmd.authed /\ PostAccepted /\ cmd.status_out.ret = "raise") =>
        cmd.out.ret = "return"

\* C5: the online check is advisory: when it reports the lock offline or
\* fails, the user-UID resolution is still issued and no error is raised on
\* account of the online check.
C5_OnlineCheckAdvisory ==
    (CmdDone /\ cmd.authed
        /\ (cmd.online_out.ret = "raise"
            \/ (cmd.online_out.ret = "return" /\ ~cmd.online.is_online))) =>
        /\ Len(cmd.reqs) >= 2 /\ cmd.reqs[2] = "devices"
        /\ cmd.uid_out.ret = "return" => "command" \in Range(cmd.reqs)

\* C6: when the user UID of the target device cannot be resolved, the call
\* raises an API error and no command POST is sent for that invocation.
C6_NoUidNoCommand ==
    /\ cmd.uid_out.ret = "raise" =>
            /\ CmdDone
            /\ cmd.out.ret = "raise" /\ cmd.out.exc = "UltraloqApiError"
            /\ "command" \notin Range(cmd.reqs)
    /\ "command" \in Range(cmd.reqs) => cmd.uid_out.ret = "return" /\ cmd.uid # Missing

C6_Witness ==
    /\ CmdDone /\ cmd.authed /\ cmd.reqs = <<"online", "devices">>
    /\ cmd.uid_out.msg = <<"No user UID found for device">>

\* C7: get_lock_status maps raw code 2 to is_locked only, raw code 1 to
\* is_unlocked only, every other code (a missing value included) to neither;
\* raw_lock_state carries the raw code (0 for a missing value); the two flags
\* are never both true.
C7_LockStateMapping ==
    (last.op = "get_lock_status" /\ last.out.ret = "return") =>
        /\ last.raw = 2 => (last.status.is_locked /\ ~last.status.is_unlocked)
        /\ last.raw = 1 => (~last.status.is_locked /\ last.status.is_unlocked)
        /\ last.raw \notin {1, 2} => (~last.status.is_locked /\ ~last.status.is_unlocked)
        /\ last.status.raw_lock_state = (IF last.raw = Missing THEN 0 ELSE last.raw)
        /\ ~(last.status.is_locked /\ last.status.is_unlocked)

C7_Witness ==
    /\ last.op = "get_lock_status" /\ last.authed /\ last.out.ret = "return"
    /\ last.raw = 2 /\ last.status.is_locked

RECURSIVE Concat(_)
Concat(groups) ==
    IF groups = <<>> THEN <<>>
    ELSE (IF Head(groups).has_devices THEN Head(groups).devices ELSE <<>>)
            \o Concat(Tail(groups))

IsUBolt(device) == device.model = "U-Bolt"

\* C9: for every device-group list, get_locks returns exactly the devices
\* whose model equals "U-Bolt", in group order then device order, and never a
\* device with any other model.
C9_ExactlyUBoltInOrder ==
    locks_done =>
        LET expected == SelectSeq(Concat(device_data), IsUBolt)
        IN  /\ Len(locks) = Len(expected)
            /\ \A k \in 1..Len(locks) :
                /\ locks[k].model = "U-Bolt"
                /\ k <= Len(expected) =>
                    /\ locks[k].uuid = expected[k].uuid
                    /\ locks[k].user_uid = expected[k].uid

C9_Witness ==
    /\ locks_done
    /\ device_data = <<NoDevicesGroup, Group(<<DevD, DevA>>)>>
    /\ Len(locks) = 1 /\ locks[1].uuid = "u1"

\* C10: in a refresh cycle a failed status query for one uuid does not alter
\* the others: the cycle returns a mapping that holds the fresh snapshot of
\* every uuid whose query succeeded and, for a uuid whose query failed, that
\* uuid's last successful snapshot.
C10_FailureIsolation ==
    cycle.ran =>
        \A u \in Range(cycle.queried) :
            /\ cycle.result[u].res = "ok" =>
                /\ ~cycle.failed
                /\ ~data.none /\ data.map[u] = Present(cycle.result[u].status)
            /\ (cycle.result[u].res = "fail" /\ last_good[u].present) =>
                /\ ~cycle.failed
                /\ ~data.none /\ data.map[u] = last_good[u]

\* C11: a failed status query of an individual device never makes the refresh
\* itself raise, in any cycle, the first cycle (no previous data) included.
C11_DeviceFailureNeverRaises ==
    (cycle.ran /\ \E u \in Range(cycle.queried) : cycle.result[u].res = "fail") =>
        ~cycle.failed /\ last_update_success

AuthDone == auth.pc = "done"

LoginAnswered(codes) == auth.login_resp.kind = "ok" /\ auth.login_resp.code \in codes

\* C12: when the token step succeeded and the login endpoint answers HTTP 200
\* with application code 401, authenticate() raises UltraloqAuthError, and on
\* a client that was not authenticated is_authenticated stays false.
C12_InvalidCredentialsAuthError ==
    (AuthDone /\ LoginAnswered({401})) =>
        /\ auth.out.ret = "raise" /\ auth.out.exc = "UltraloqAuthError"
        /\ ~auth.was_authenticated => ~is_authenticated

C12_Witness ==
    /\ AuthDone /\ LoginAnswered({401}) /\ ~auth.was_authenticated
    /\ auth.reqs = <<"token", "login">> /\ auth.out.exc = "UltraloqAuthError"
    /\ ~is_authenticated

\* C13: when the login endpoint answers HTTP 200 with an application code
\* other than 200 and 401, authenticate() raises a generic API error
\* (UltraloqApiError that is not UltraloqAuthError) and never returns normally.
C13_OtherCodeGenericError ==
    (AuthDone /\ LoginAnswered(AppCodes \ {200, 401})) =>
        auth.out.ret = "raise" /\ auth.out.exc = "UltraloqApiError"

\* C14: a network-level failure during authenticate() (connection failure,
\* timeout, undecodable login body, non-200 HTTP status of the login request)
\* reaches the caller as UltraloqApiError and not as UltraloqAuthError.
C14_NetworkFailuresAreApiErrors ==
    (AuthDone /\ (auth.token_resp.kind \in {"client_error", "timeout"}
                  \/ auth.login_resp.kind \in FailKinds)) =>
        auth.out.ret = "raise" /\ auth.out.exc = "UltraloqApiError"

TokenAnswered(codes) == auth.token_resp.kind = "ok" /\ auth.token_resp.code \in codes

\* C15: _get_api_token succeeds only when the token response has application
\* code 200 and carries a non-empty token and a non-empty base URL; it then
\* returns that token and the client stores exactly that token and base URL.
\* With either one missing the call fails with UltraloqApiError.
C15_TokenNeedsTokenAndUrl ==
    /\ "login" \in Range(auth.reqs) =>
            /\ TokenAnswered({200})
            /\ ~Falsy(auth.token_resp.token) /\ ~Falsy(auth.token_resp.utec)
            /\ auth.login_token = auth.token_resp.token
            /\ api_token = auth.token_resp.token
            /\ api_base_url = auth.token_resp.utec
    /\ (TokenAnswered({200})
            /\ (Falsy(auth.token_resp.token) \/ Falsy(auth.token_resp.utec))) =>
            /\ AuthDone /\ auth.reqs = <<"token">>
            /\ auth.out = Raise("UltraloqApiError", <<"Invalid token response">>)

C15_Witness ==
    /\ auth.pc = "await_login" /\ TokenAnswered({200})
    /\ auth.token_resp.token = "T2" /\ api_token = "T2"
    /\ api_base_url = "https://X"

\* C16: when the token endpoint answers with a non-200 HTTP status or with an
\* application code other than 200 (202 included), _get_api_token raises
\* UltraloqApiError, authenticate() fails with that error, and the call sends
\* no login request.
C16_TokenFailureStopsHandshake ==
    (auth.token_resp.kind = "http_error" \/ TokenAnswered(AppCodes \ {200})) =>
        /\ AuthDone
        /\ auth.out.ret = "raise" /\ auth.out.exc = "UltraloqApiError"
        /\ auth.reqs = <<"token">>

C16_Witness ==
    /\ AuthDone /\ TokenAnswered({202}) /\ auth.reqs = <<"token">>
    /\ auth.out = Raise("UltraloqApiError", <<"Token request failed">>)

\* C17: every authenticate() call first issues a new token request, sends the
\* login request only after that token request succeeded in the same call and
\* with the token just acquired, and is_authenticated changes from false to
\* true only on a login response with application code 200.
C17_HandshakeOrdering ==
    /\ [](/\ auth.reqs \in {<<>>, <<"token">>, <<"token", "login">>}
          /\ auth.pc # "idle" => (auth.reqs # <<>> /\ auth.reqs[1] = "token")
          /\ "login" \in Range(auth.reqs) =>
                /\ TokenAnswered({200})
                /\ auth.login_token = auth.token_resp.token
                /\ ~Falsy(auth.login_token))
    /\ [][(~is_authenticated /\ is_authenticated') =>
                /\ auth.pc = "await_login"
                /\ auth'.login_resp.kind = "ok" /\ auth'.login_resp.code = 200
                /\ access_token' = auth.login_token]_vars

C17_Witness ==
    /\ AuthDone /\ auth.reqs = <<"token", "login">> /\ ~auth.was_authenticated
    /\ LoginAnswered({200}) /\ is_authenticated /\ auth.val = "True"

\* C18: after any sequence of serialized authenticate() calls, successful or
\* failed, whenever is_authenticated is true the access token equals the
\* stored API token and that API token is non-empty, so every data and
\* command method passes its authentication guard.
C18_AuthenticatedTokenAliased ==
    /\ (Quiet /\ is_authenticated) =>
            access_token = api_token /\ ~Falsy(api_token)
    /\ (last.op # "" /\ last.authed) => last.out # NotAuthenticated

\* C19: get_addresses, get_devices, get_locks, get_device_user_uid,
\* get_lock_status, check_lock_online, lock and unlock leave _api_token,
\* _api_base_url and _access_token unchanged, whether they succeed or fail.
C19_ReadsAndCommandsKeepAuthState ==
    [][((last' # last /\ last'.op # "") \/ (cmd' # cmd /\ cmd'.pc # "idle")) =>
            UNCHANGED <<api_token, api_base_url, access_token>>]_vars

C19_Witness ==
    /\ CmdDone /\ cmd.authed /\ cmd.out.ret = "raise"
    /\ cmd.reqs = <<"online", "devices", "command", "status">>
    /\ api_token = "T1" /\ api_base_url = "https://X" /\ access_token = "T1"

\* The number of requests of one invocation that went to an endpoint.
Count(reqs, endpoint) == Cardinality({i \in 1..Len(reqs) : reqs[i] = endpoint})

\* C20: no automatic retry: one lock()/unlock() invocation sends at most one
\* request to each of the online-check, device-list, command and status
\* endpoints, and one authenticate() call at most one token request and at
\* most one login request, whatever the responses are.
C20_NoRetry ==
    /\ \A endpoint \in {"online", "devices", "command", "status"} :
            Count(cmd.reqs, endpoint) <= 1
    /\ \A endpoint \in {"token", "login"} : Count(auth.reqs, endpoint) <= 1
    /\ Len(cmd.reqs) <= 4 /\ Len(auth.reqs) <= 2

C20_Witness ==
    /\ CmdDone /\ cmd.post.kind = "timeout"
    /\ cmd.reqs = <<"online", "devices", "command">>
    /\ cmd.out = Raise("TimeoutError", <<"timeout">>)

\* C21: when a lock()/unlock() invocation is cancelled while it waits in the
\* settle delay, the command POST has already been sent and accepted
\* (application code 200), the cancellation reaches the caller as it is,
\* neither as a success nor as an API error, and the invocation issues no
\* verification status query.
C21_CancelInSettle ==
    (CmdDone /\ cmd.cancelled_at = "settle") =>
        /\ PostAccepted
        /\ cmd.reqs = <<"online", "devices", "command">>
        /\ cmd.out = Cancelled /\ ~IsApiError(cmd.out)
        /\ cmd.status_out = Pending

C21_Witness ==
    /\ CmdDone /\ cmd.authed /\ cmd.cancelled_at = "settle" /\ cmd.action = "UNLOCK"
    /\ cmd.out.exc = "CancelledError" /\ "status" \notin Range(cmd.reqs)

\* C22: while a lock()/unlock() invocation is in its settle-delay wait, a
\* status query and a coordinator refresh cycle on the same client can start
\* and complete, and they leave the waiting invocation as it is.
C22_SettleDoesNotBlock ==
    /\ [](cmd.pc = "settle" => (ENABLED Call_get_lock_status /\ ENABLED RefreshCycle))
    /\ [][(cmd.pc = "settle" /\ (last' # last \/ cycle' # cycle)) =>
            /\ cmd' = cmd
            /\ last' # last => last'.out.ret \in {"return", "raise"}
            /\ cycle' # cycle => cycle'.ran]_vars

C22_Witness ==
    /\ cmd.pc = "settle" /\ cmd.uuid = "u1"
    /\ last.op = "get_lock_status" /\ last.uuid = "u2" /\ last.out.ret = "return"
    /\ cycle.ran /\ ~cycle.failed /\ cycle.queried = <<"u1", "u2">>

\* C23: for every successful check_lock_online response, ble_online is true
\* iff the ble field equals 1, remote_online is true iff the remote field
\* equals 1 (a missing field counts as offline), and is_online equals
\* ble_online AND remote_online.
C23_OnlineFlags ==
    /\ (last.op = "check_lock_online" /\ last.out.ret = "return") =>
            /\ last.online.ble_online <=> (last.resp.ble = 1)
            /\ last.online.remote_online <=> (last.resp.remote = 1)
            /\ last.online.is_online <=>
                    (last.online.ble_online /\ last.online.remote_online)
    /\ cmd.online_out.ret = "return" =>
            (cmd.online.is_online <=>
                    (cmd.online.ble_online /\ cmd.online.remote_online))

C23_Witness ==
    /\ last.op = "check_lock_online" /\ last.authed /\ last.out.ret = "return"
    /\ last.resp.ble = 1 /\ last.resp.remote = Missing
    /\ last.online.ble_online /\ ~last.online.remote_online /\ ~last.online.is_online

\* C24: lock() reports verified success only when the re-queried snapshot is
\* locked (raw state 2) and unlock() only when it is unlocked (raw state 1);
\* a snapshot in an unknown state (both flags false) confirms neither action.
C24_VerifiedSuccessMatchesAction ==
    (CmdDone /\ cmd.authed /\ cmd.out.ret = "return"
        /\ cmd.status_out.ret = "return") =>
        /\ cmd.action = "LOCK" =>
                (cmd.status.is_locked /\ cmd.status.raw_lock_state = 2)
        /\ cmd.action = "UNLOCK" =>
                (cmd.status.is_unlocked /\ cmd.status.raw_lock_state = 1)

\* C25: get_locks lists a device of the lock family even when it has no user
\* data (its user_uid is then absent), every listed lock carries the uid
\* nested in its device's user data, and no lock is dropped for a missing uid.
C25_MissingUidStillListed ==
    locks_done =>
        LET all == Concat(device_data)
            family == {i \in 1..Len(all) : all[i].model = "U-Bolt"}
            without == {i \in family : all[i].uid = Missing}
        IN  /\ Len(locks) = Cardinality(family)
            /\ Cardinality({k \in 1..Len(locks) : locks[k].user_uid = Missing})
                    = Cardinality(without)
            /\ \A i \in family : \E k \in 1..Len(locks) :
                    locks[k].uuid = all[i].uuid /\ locks[k].user_uid = all[i].uid

C25_Witness ==
    /\ locks_done
    /\ device_data = <<Group(<<DevB, DevA>>)>>
    /\ Len(locks) = 2 /\ locks[1].uuid = "u2" /\ locks[1].user_uid = Missing

\* C26: on an authenticated client, get_addresses, get_devices,
\* get_lock_status and check_lock_online raise UltraloqApiError and return no
\* data whenever the response's HTTP status is not 200 or its application
\* code is not 200, and return data only for HTTP 200 with code 200.
C26_NonOkResponsesRaise ==
    (last.op \in {"get_addresses", "get_devices", "get_lock_status", "check_lock_online"}
        /\ last.authed /\ last.nreq = 1) =>
        /\ (last.resp.kind = "http_error"
                \/ (last.resp.kind = "ok" /\ last.resp.code # 200)) =>
                /\ last.out.ret = "raise" /\ last.out.exc = "UltraloqApiError"
                /\ last.status = NoSnapshot /\ last.online = NoOnlineStatus
        /\ last.out.ret = "return" =>
                (last.resp.kind = "ok" /\ last.resp.code = 200)

C26_Witness ==
    /\ last.op = "get_addresses" /\ last.authed /\ last.nreq = 1
    /\ last.resp = [kind |-> "ok", code |-> 202]
    /\ last.out = Raise("UltraloqApiError", <<"Address", "request failed">>)

\* C27: inside one lock()/unlock() invocation the command POST is sent only
\* after the user-UID resolution for that device succeeded, the verification
\* status query only after the command POST returned application code 200 and
\* the settle delay has elapsed, and a command response with a non-200 HTTP
\* status or application code is followed by no status query.
C27_RequestOrdering ==
    /\ [](/\ \E n \in 0..4 :
                cmd.reqs = SubSeq(<<"online", "devices", "command", "status">>, 1, n)
          /\ "command" \in Range(cmd.reqs) =>
                (cmd.uid_out.ret = "return" /\ cmd.uid # Missing)
          /\ "status" \in Range(cmd.reqs) => PostAccepted
          /\ (cmd.post.kind = "http_error"
                \/ (cmd.post.kind = "ok" /\ cmd.post.code # 200)) =>
                (CmdDone /\ cmd.out.ret = "raise" /\ "status" \notin Range(cmd.reqs)))
    /\ [][("status" \notin Range(cmd.reqs) /\ "status" \in Range(cmd'.reqs)) =>
                (cmd.pc = "settle" /\ PostAccepted)]_vars

C27_Witness ==
    /\ CmdDone /\ cmd.authed /\ cmd.post = [kind |-> "ok", code |-> 500]
    /\ cmd.reqs = <<"online", "devices", "command">> /\ cmd.out = InvalidFormat

\* C28: lock(uuid) submits topic "lock/lock" and verifies against the locked
\* state, unlock(uuid) submits topic "lock/unlock" and verifies against the
\* not-locked state; the payload's device_uuid is the requested uuid, param
\* is the string form of the uid resolved for that same uuid, and info is 8.
C28_TopicAndPayload ==
    /\ "command" \in Range(cmd.reqs) =>
            LET Matches(device) == device.uuid = cmd.uuid
                matching == SelectSeq(Concat(cmd.devices), Matches)
            IN  /\ cmd.action = "LOCK" => cmd.payload.topic = "lock/lock"
                /\ cmd.action = "UNLOCK" => cmd.payload.topic = "lock/unlock"
                /\ cmd.payload.device_uuid = cmd.uuid
                /\ cmd.payload.info = 8
                /\ matching # <<>>
                /\ Head(matching).uid = 7 => cmd.payload.param = "7"
                /\ Head(matching).uid = 0 => cmd.payload.param = "0"
                /\ Head(matching).uid \in {0, 7}
    /\ (CmdDone /\ cmd.out.ret = "return" /\ cmd.status_out.ret = "return") =>
            /\ cmd.action = "LOCK" => cmd.status.is_locked
            /\ cmd.action = "UNLOCK" => ~cmd.status.is_locked

C28_Witness ==
    /\ cmd.pc = "await_command" /\ cmd.authed /\ cmd.action = "UNLOCK" /\ cmd.uuid = "u2"
    /\ cmd.payload = [device_uuid |-> "u2", param |-> "0", info |-> 8,
                      topic |-> "lock/unlock"]

\* C29: get_device_user_uid returns the user uid of the first device in the
\* address's device groups whose uuid matches; it raises UltraloqApiError when
\* no device matches or when that device has no uid, and it substitutes no
\* default: a uid of 0 is returned as 0, an absent uid is an error.
C29_UidOfFirstMatch ==
    (last.op = "get_device_user_uid" /\ last.nreq = 1
        /\ last.resp.kind = "ok" /\ last.resp.code = 200) =>
        LET Matches(device) == device.uuid = last.uuid
            matching == SelectSeq(Concat(last.resp.data), Matches)
        IN  /\ matching = <<>> =>
                last.out = Raise("UltraloqApiError", <<"Device not found">>)
            /\ (matching # <<>> /\ Head(matching).uid = Missing) =>
                /\ last.out = Raise("UltraloqApiError", <<"No user UID found for device">>)
                /\ last.uid = Missing
            /\ (matching # <<>> /\ Head(matching).uid # Missing) =>
                (last.out = Return /\ last.uid = Head(matching).uid)

C29_Witness ==
    /\ last.op = "get_device_user_uid" /\ last.authed /\ last.uuid = "u2"
    /\ last.resp.kind = "ok" /\ last.resp.code = 200
    /\ last.resp.data = <<Group(<<DevA, DevC>>), Group(<<DevB>>)>>
    /\ last.out = Return /\ last.uid = 0

\* C30: a refresh cycle runs lock discovery only when the cached uuid list is
\* empty; once a discovery returned a non-empty list, later cycles reuse it
\* without discovery until async_refresh_locks clears it, and the cycle that
\* follows re-discovers.  A lock without a uuid is never put in the list.
C30_DiscoveryOnlyWhenEmpty ==
    /\ [](/\ cycle.ran => (cycle.discover <=> cycle.cached = <<>>)
          /\ (cycle.ran /\ ~cycle.discover) =>
                (lock_uuids = cycle.cached /\ cycle.queried = cycle.cached)
          /\ \A i \in 1..Len(lock_uuids) : lock_uuids[i] \in UUIDs)
    /\ [][cycle' # cycle =>
            /\ cycle'.via = "refresh" => cycle'.cached = lock_uuids
            /\ (cycle'.via = "refresh" /\ lock_uuids # <<>>) =>
                    (~cycle'.discover /\ lock_uuids' = lock_uuids)
            /\ cycle'.via = "refresh_locks" =>
                    (cycle'.cached = <<>> /\ cycle'.discover)]_vars

C30_Witness ==
    /\ cycle.ran /\ cycle.via = "refresh" /\ ~cycle.discover
    /\ cycle.cached = <<"u1">> /\ lock_uuids = <<"u1">> /\ cycle.queried = <<"u1">>
    /\ ~cycle.failed

\* The credential step has handed authenticate()'s outcome to its branches.
CredentialStepDone == flow.result # Pending /\ ~flow.authenticating

\* C31: the credential step of the config flow branches on the error kind:
\* UltraloqAuthError gives form error invalid_auth, any other UltraloqApiError
\* cannot_connect, any other exception unknown, a non-true return auth_failed;
\* the flow is at the address step, or past it, or has created an entry, only
\* when authenticate() returned True.
C31_CredentialStepBranches ==
    /\ [](/\ (CredentialStepDone /\ flow.result.ret = "raise") =>
                /\ flow.step = "user" /\ ~flow.entry_created
                /\ flow.result.exc = "UltraloqAuthError" => flow.error = "invalid_auth"
                /\ flow.result.exc = "UltraloqApiError" => flow.error = "cannot_connect"
                /\ ~IsApiError(flow.result) => flow.error = "unknown"
          /\ (CredentialStepDone /\ flow.result.ret = "return" /\ flow.val # "True") =>
                (flow.step = "user" /\ flow.error = "auth_failed"
                    /\ ~flow.entry_created)
          /\ (flow.step \in {"address_loading", "address", "aborted", "created"}
                \/ flow.entry_created) =>
                (flow.result = Return /\ flow.val = "True"))
    /\ [][(flow.step = "user" /\ flow'.step # "user") =>
            (auth.pc = "done" /\ auth.out = Return /\ auth.val = "True")]_vars

C31_Witness ==
    /\ CredentialStepDone /\ flow.step = "user"
    /\ flow.result.ret = "raise" /\ flow.result.exc = "UltraloqAuthError"
    /\ flow.error = "invalid_auth" /\ ~flow.has_client

\* C34: async_setup_entry creates and stores the coordinator and forwards the
\* platforms only when authenticate() returned True and the client is
\* authenticated; in every other outcome nothing is stored or forwarded.
C34_SetupOnlyWhenAuthenticated ==
    setup.pc \in {"loaded", "failed"} =>
        ((setup.stored \/ setup.forwarded) <=>
            (setup.result = Return /\ setup.val = "True" /\ setup.authenticated))

\* C32: state unchanged on error: when an authenticate() call has failed, at
\* the token step or at the login step, the stored API token, base URL and
\* access token are what they were before the call.
C32_FailedAuthLeavesState ==
    (AuthDone /\ auth.out.ret = "raise") =>
        /\ api_token = auth.before.api_token
        /\ api_base_url = auth.before.api_base_url
        /\ access_token = auth.before.access_token

\* The tokens a login request of `call` submitted and saw answered with
\* application code 200.
AcceptedBy(call) ==
    IF call.login_resp.kind = "ok" /\ call.login_resp.code = 200
    THEN {call.login_token} ELSE {}

\* C33: under any interleaving of two in-flight authenticate() calls on one
\* client, whenever a call returns True the access token it stored is a token
\* that was submitted in a login request answered with application code 200.
C33_InterleavedAuthStoresAcceptedToken ==
    /\ [][(auth.pc = "await_login" /\ auth'.pc = "done" /\ auth'.val = "True") =>
            access_token' \in AcceptedBy(auth') \cup AcceptedBy(auth2')]_vars
    /\ [][(auth2.pc = "await_login" /\ auth2'.pc = "done" /\ auth2'.val = "True") =>
            access_token' \in AcceptedBy(auth') \cup AcceptedBy(auth2')]_vars

\* The entity method has decided between the early return and the command.
EntityDecided == entity.pc # "idle"

\* C35: the lock entity skips a command only when the cached snapshot already
\* shows the requested state: async_lock sends no lock command iff the cached
\* snapshot is locked (raw state 2), async_unlock sends no unlock command iff
\* the cached snapshot is unlocked (raw state 1); with no cached snapshot or a
\* snapshot in an unknown state the command is sent.
C35_SkipOnlyWhenInRequestedState ==
    EntityDecided =>
        /\ entity.op = "lock" =>
                (~entity.sent <=>
                    (entity.cached.present /\ entity.cached.status.raw_lock_state = 2))
        /\ entity.op = "unlock" =>
                (~entity.sent <=>
                    (entity.cached.present /\ entity.cached.status.raw_lock_state = 1))

\* C36: a coordinator refresh is requested after a command iff the client's
\* lock()/unlock() call returned; when the command raises, the error reaches
\* the caller, no refresh is requested and the coordinator's data is as it was.
C36_RefreshIffCommandReturned ==
    /\ []((entity.sent /\ entity.pc \in {"refresh", "done"}) =>
            /\ cmd.pc = "done"
            /\ entity.refresh_requested <=> cmd.out = Return
            /\ (entity.pc = "done" /\ cmd.out # Return) =>
                    (entity.out = cmd.out /\ data.map = entity.data_before
                        /\ ~cycle.ran))
    /\ []((~entity.sent) => (~entity.refresh_requested /\ ~cycle.ran))
    /\ [][cycle' # cycle =>
            (entity.refresh_requested /\ cmd.pc = "done" /\ cmd.out = Return)]_vars

C36_Witness ==
    /\ entity.pc = "done" /\ entity.sent /\ entity.op = "unlock"
    /\ cmd.pc = "done" /\ cmd.out.ret = "raise" /\ cmd.out.exc = "UltraloqApiError"
    /\ ~entity.refresh_requested /\ entity.out = cmd.out
    /\ entity.cached.present /\ data.map["u1"] = entity.cached

====
